---------------------------- MODULE Spec2Model ----------------------------
(***************************************************************************)
(* Markov-chain attribution engine (RobustMarkovModel) of                  *)
(* src/run_package_attribution.py and src/app.py.                          *)
(*                                                                         *)
(* The data frame is a sequence of touchpoint rows.  Python dictionaries   *)
(* are sequences of entries in insertion order, because the solver         *)
(* iterates probs_dict.keys() in that order.  Python floats are modelled   *)
(* as exact rationals <<numerator, denominator>>; a denominator of 0 marks *)
(* the value of a division by zero (a raised ZeroDivisionError).           *)
(***************************************************************************)
EXTENDS Integers, Sequences, FiniteSets

(* ------------------------------ bounds -------------------------------- *)
MaxRows == 4      \* rows of the data frame under Spec
MaxRowsLong == 5  \* rows of the data frame under SpecLong
MaxUsers == 3     \* distinct cookies
MaxCalls == 2     \* calls of calculate_attribution on one model

\* The engine treats channel names as opaque strings, so the rows introduce
\* the channels in this order: every input is one of these up to renaming.
ChannelOrder == <<"FB", "Google", "TikTok">>
Values == {100}

START == "(start)"
CONVERSION == "(conversion)"
NULL == "(null)"

(* ----------------------------- rationals ------------------------------ *)
Abs(n) == IF n < 0 THEN -n ELSE n

RECURSIVE Gcd(_, _)
Gcd(a, b) == IF b = 0 THEN a ELSE Gcd(b, a % b)

RErr == <<1, 0>>
IsErr(x) == x[2] = 0

\* n/d in lowest terms with a positive denominator, g their gcd.
Reduce(n, d, g) ==
    IF d < 0 THEN <<(-n) \div g, (-d) \div g>> ELSE <<n \div g, d \div g>>

Norm(n, d) == IF d = 0 THEN RErr ELSE Reduce(n, d, Gcd(Abs(n), Abs(d)))

Zero == <<0, 1>>
One == <<1, 1>>
FromInt(n) == <<n, 1>>

RAdd(x, y) == IF IsErr(x) \/ IsErr(y) THEN RErr
              ELSE Norm(x[1] * y[2] + y[1] * x[2], x[2] * y[2])
RSub(x, y) == IF IsErr(x) \/ IsErr(y) THEN RErr
              ELSE Norm(x[1] * y[2] - y[1] * x[2], x[2] * y[2])
RMul(x, y) == IF IsErr(x) \/ IsErr(y) THEN RErr
              ELSE Norm(x[1] * y[1], x[2] * y[2])
RDiv(x, y) == IF IsErr(x) \/ IsErr(y) THEN RErr
              ELSE Norm(x[1] * y[2], x[2] * y[1])
RGt(x, y) == x[1] * y[2] > y[1] * x[2]
RGe(x, y) == x[1] * y[2] >= y[1] * x[2]

(* ------------------------------ state --------------------------------- *)
VARIABLES
    df,                \* self.df: the touchpoint rows
    pc,                \* "load" | "returned" | "fitted" | "done"
    decorated,         \* the unique_channels list built for each path of fit
    transitions,       \* self.transitions, in insertion order
    transition_probs,  \* self.transition_probs, in insertion order
    base_conversion,   \* base_conversion of the last calculate_attribution
    results,           \* results: channel -> removal effect
    total_revenue,     \* total_revenue of the last calculate_attribution
    attribution,       \* attribution: channel -> 'Markov Value'
    outcome,           \* "none" | "ok" | "ZeroDivisionError"
    calls              \* number of calculate_attribution calls made

vars == <<df, pc, decorated, transitions, transition_probs, base_conversion,
          results, total_revenue, attribution, outcome, calls>>

(* --------------------------- loading rows ----------------------------- *)
LastCookie == IF df = <<>> THEN 0 ELSE df[Len(df)].cookie

UsedChannels == {df[i].channel : i \in DOMAIN df}
NextChannels ==
    {ChannelOrder[i] : i \in (1 .. Cardinality(UsedChannels) + 1)
                              \cap DOMAIN ChannelOrder}

\* One row of the query result after the pre-processing: conversion is
\* interaction = 'conversion', a missing conversion_value is filled with 0.
Row(cookie, channel, interaction, value) ==
    [cookie |-> cookie, time |-> Len(df) + 1, channel |-> channel,
     conversion |-> (interaction = "conversion"),
     conversion_value |-> IF interaction = "conversion" THEN value ELSE 0]


(* -------------------------------- fit --------------------------------- *)
\* df.sort_values(['cookie', 'time']): a stable sort on the key (cookie, time).
RowLe(a, b) == a.cookie < b.cookie \/ (a.cookie = b.cookie /\ a.time <= b.time)

RECURSIVE InsertRow(_, _)
InsertRow(sorted, row) ==
    IF sorted = <<>> THEN <<row>>
    ELSE IF RowLe(sorted[Len(sorted)], row) THEN Append(sorted, row)
    ELSE Append(InsertRow(SubSeq(sorted, 1, Len(sorted) - 1), row),
                sorted[Len(sorted)])

RECURSIVE SortValues(_)
SortValues(d) ==
    IF d = <<>> THEN <<>>
    ELSE InsertRow(SortValues(SubSeq(d, 1, Len(d) - 1)), d[Len(d)])

\* The channel column of the rows of one cookie, in row order.
RECURSIVE ChannelList(_, _)
ChannelList(d, cookie) ==
    IF d = <<>> THEN <<>>
    ELSE LET rest == ChannelList(Tail(d), cookie)
         IN  IF Head(d).cookie = cookie THEN <<Head(d).channel>> \o rest
             ELSE rest

\* The distinct cookies in ascending order (groupby sorts its keys).
RECURSIVE SortedKeys(_)
SortedKeys(S) ==
    IF S = {} THEN <<>>
    ELSE LET m == CHOOSE x \in S : \A y \in S : x <= y
         IN  <<m>> \o SortedKeys(S \ {m})

\* df.groupby('cookie')['channel'].apply(list).reset_index()
GroupPaths(d) ==
    LET keys == SortedKeys({d[i].cookie : i \in DOMAIN d})
    IN  [k \in DOMAIN keys |->
            [cookie |-> keys[k], channel |-> ChannelList(d, keys[k])]]

\* paths[paths['channel'].apply(lambda x: x == path)]['cookie'].values[0]:
\* the cookie of the first row of paths whose channel list equals path.
LookupUserId(paths, path) ==
    LET hits == {j \in DOMAIN paths : paths[j].channel = path}
        first == CHOOSE j \in hits : \A k \in hits : j <= k
    IN  paths[first].cookie

\* self.df[self.df['cookie'] == user_id]['conversion'].max()
HasConverted(d, user_id) ==
    \E i \in DOMAIN d : d[i].cookie = user_id /\ d[i].conversion

\* unique_channels of one iteration of the loop over paths['channel'].
DecoratedPath(d, paths, path) ==
    <<START>> \o path \o
    <<IF HasConverted(d, LookupUserId(paths, path)) THEN CONVERSION ELSE NULL>>

\* self.transitions[(from_node, to_node)] += 1 on a defaultdict(int)
Increment(trans, from, to) ==
    IF \E i \in DOMAIN trans : trans[i].from = from /\ trans[i].to = to
    THEN [i \in DOMAIN trans |->
            IF trans[i].from = from /\ trans[i].to = to
            THEN [trans[i] EXCEPT !.count = @ + 1] ELSE trans[i]]
    ELSE Append(trans, [from |-> from, to |-> to, count |-> 1])

\* for i in range(len(unique_channels)-1): count the pair (i, i+1)
RECURSIVE CountPath(_, _, _)
CountPath(trans, uc, i) ==
    IF i >= Len(uc) THEN trans
    ELSE CountPath(Increment(trans, uc[i], uc[i + 1]), uc, i + 1)

\* for path in paths['channel']: ...
RECURSIVE CountPaths(_, _, _)
CountPaths(trans, decs, k) ==
    IF k > Len(decs) THEN trans
    ELSE CountPaths(CountPath(trans, decs[k], 1), decs, k + 1)

RECURSIVE SumCounts(_, _)
SumCounts(trans, from) ==
    IF trans = <<>> THEN 0
    ELSE (IF Head(trans).from = from THEN Head(trans).count ELSE 0)
         + SumCounts(Tail(trans), from)

\* Variant: the divisor is the number of outbound edges, not their counts.
OutboundCountEdges(trans, from) ==
    Cardinality({i \in DOMAIN trans : trans[i].from = from})

\* outbound_counts[from_node] += count
OutboundCount(trans, from) == SumCounts(trans, from)

\* self.transition_probs[(from_node, to_node)] = count / outbound_counts[from_node]
Probabilities(trans) ==
    [i \in DOMAIN trans |->
        [from |-> trans[i].from, to |-> trans[i].to,
         p |-> RDiv(FromInt(trans[i].count),
                    FromInt(OutboundCount(trans, trans[i].from)))]]

(* ------------------- _calculate_conversion_probability ---------------- *)
EmptyMemo == [n \in {} |-> Zero]

\* get_prob(node, visited) with the memo dictionary it reads and writes:
\* the result is the returned value and the memo after the call.
\* SumNeighbors is the loop over neighbors, entry i of probs_dict onwards.
\* Memoise is memo[node] = total_prob; return total_prob, on the outcome r
\* of the loop.  AddNeighbor is total_prob += p * get_prob(neighbor, ...),
\* on the outcome r of the recursive call, followed by the rest of the loop.
RECURSIVE GetProb(_, _, _, _)
RECURSIVE SumNeighbors(_, _, _, _, _, _)
RECURSIVE AddNeighbor(_, _, _, _, _, _)
Memoise(node, r) ==
    [val |-> r.val,
     memo |-> [n \in DOMAIN r.memo \cup {node} |->
                  IF n = node THEN r.val ELSE r.memo[n]]]

GetProb(node, visited, memo, probs) ==
    IF node = CONVERSION THEN [val |-> One, memo |-> memo]
    ELSE IF node = NULL THEN [val |-> Zero, memo |-> memo]
    ELSE IF node \in visited THEN [val |-> Zero, memo |-> memo]
    ELSE IF node \in DOMAIN memo THEN [val |-> memo[node], memo |-> memo]
    ELSE Memoise(node, SumNeighbors(node, visited \cup {node}, memo, probs,
                                    1, Zero))

SumNeighbors(node, visited, memo, probs, i, total_prob) ==
    IF i > Len(probs) THEN [val |-> total_prob, memo |-> memo]
    ELSE IF probs[i].from = node /\ RGt(probs[i].p, Zero)
    THEN AddNeighbor(node, visited, probs, i, total_prob,
                     GetProb(probs[i].to, visited, memo, probs))
    ELSE SumNeighbors(node, visited, memo, probs, i + 1, total_prob)

\* Variant: total_prob += get_prob(neighbor, ...), without the factor p.
AddNeighborUnweighted(node, visited, probs, i, total_prob, r) ==
    SumNeighbors(node, visited, r.memo, probs, i + 1, RAdd(total_prob, r.val))

\* Variant: total_prob = p * get_prob(neighbor, ...), an assignment.
AddNeighborOverwrite(node, visited, probs, i, total_prob, r) ==
    SumNeighbors(node, visited, r.memo, probs, i + 1, RMul(probs[i].p, r.val))

AddNeighbor(node, visited, probs, i, total_prob, r) ==
    SumNeighbors(node, visited, r.memo, probs, i + 1,
                 RAdd(total_prob, RMul(probs[i].p, r.val)))

ConversionProbability(probs) == GetProb(START, {}, EmptyMemo, probs).val

(* ------------------------ calculate_attribution ----------------------- *)
\* set([k[0] for k in self.transitions.keys() if k[0] not in [...]])
AllChannels(trans) ==
    {trans[i].from : i \in DOMAIN trans} \ {START, NULL, CONVERSION}

\* Variant: only the entries leaving the channel are deleted, the entries
\* entering it keep their value.
AblateOutboundOnly(probs, channel) ==
    SelectSeq(probs, LAMBDA e : e.from # channel)

\* The loop over list(temp_probs.keys()): an entry leaving the channel is
\* deleted, otherwise an entry entering it gets the value 0.
RECURSIVE Ablate(_, _)
Ablate(probs, channel) ==
    IF probs = <<>> THEN <<>>
    ELSE LET e == Head(probs)
             rest == Ablate(Tail(probs), channel)
         IN  IF e.from = channel THEN rest
             ELSE IF e.to = channel THEN <<[e EXCEPT !.p = Zero]>> \o rest
             ELSE <<e>> \o rest

\* Variant: the ratio itself, without the "1 -".
RemovalEffectRatio(new_conversion, base) ==
    IF RGt(base, Zero) THEN RDiv(new_conversion, base) ELSE Zero

\* removal_effect = 1 - (new_conversion / base_conversion) if base > 0 else 0
RemovalEffect(new_conversion, base) ==
    IF RGt(base, Zero) THEN RSub(One, RDiv(new_conversion, base)) ELSE Zero

\* Variant: temp_probs = self.transition_probs, an alias and no copy.
BaseAfterAblationAlias(probs, temp_probs) == temp_probs

\* temp_probs = self.transition_probs.copy(): what self.transition_probs
\* holds once temp_probs has been edited.  The copy is a separate dictionary.
BaseAfterAblation(probs, temp_probs) == probs

\* for channel in all_channels, in the iteration order of the set: the
\* result is results and self.transition_probs after the loop.
\* results[channel] = removal_effect
SetItem(res, channel, effect) ==
    [c \in DOMAIN res \cup {channel} |-> IF c = channel THEN effect ELSE res[c]]

\* OneChannel is the loop body on temp_probs after its edits, followed by
\* the rest of the loop.
RECURSIVE RemovalLoop(_, _, _, _, _)
RECURSIVE OneChannel(_, _, _, _, _, _)
RemovalLoop(probs, order, k, base, res) ==
    IF k > Len(order) THEN [probs |-> probs, results |-> res]
    ELSE OneChannel(probs, order, k, base, res, Ablate(probs, order[k]))

OneChannel(probs, order, k, base, res, temp_probs) ==
    RemovalLoop(BaseAfterAblation(probs, temp_probs), order, k + 1, base,
                SetItem(res, order[k],
                        RemovalEffect(ConversionProbability(temp_probs), base)))

RECURSIVE SumValues(_, _)
SumValues(f, S) ==
    IF S = {} THEN Zero
    ELSE LET c == CHOOSE x \in S : TRUE
         IN  RAdd(f[c], SumValues(f, S \ {c}))

\* sum(results.values())
TotalRemovalEffect(res) == SumValues(res, DOMAIN res)

\* self.df[self.df['conversion'] == True]['conversion_value'].sum()
RECURSIVE TotalRevenue(_)
TotalRevenue(d) ==
    IF d = <<>> THEN 0
    ELSE (IF Head(d).conversion THEN Head(d).conversion_value ELSE 0)
         + TotalRevenue(Tail(d))

\* Variant: the effect is not divided by the total.
WeightUnnormalised(effect, total_removal_effect) ==
    IF RGt(total_removal_effect, Zero) THEN effect ELSE Zero

\* Variant: the guard is total_removal_effect >= 0.
WeightGuardNonNegative(effect, total_removal_effect) ==
    IF RGe(total_removal_effect, Zero) THEN RDiv(effect, total_removal_effect)
    ELSE Zero

\* weight = effect / total_removal_effect if total_removal_effect > 0 else 0
Weight(effect, total_removal_effect) ==
    IF RGt(total_removal_effect, Zero) THEN RDiv(effect, total_removal_effect)
    ELSE Zero

\* attribution[channel] = weight * total_revenue
Allocate(res, total_removal_effect, revenue) ==
    [c \in DOMAIN res |->
        RMul(Weight(res[c], total_removal_effect), FromInt(revenue))]

Attribution(res, revenue) == Allocate(res, TotalRemovalEffect(res), revenue)

\* The orders in which the loop may iterate the set all_channels: the
\* iteration order of a set of strings is not specified.
RECURSIVE IterationOrders(_)
IterationOrders(S) ==
    IF S = {} THEN {<<>>}
    ELSE UNION {{<<c>> \o o : o \in IterationOrders(S \ {c})} : c \in S}

(* ------------------------------ actions ------------------------------- *)
NoEntries == <<>>

(* --------------------------- run_comparison --------------------------- *)
\* RobustMarkovModel(df).fit().calculate_attribution() as one function of
\* the data frame d and of the iteration order of all_channels: the base
\* conversion probability, the removal effects and the 'Markov Value's.
DecoratePaths(sorted, paths) ==
    [k \in DOMAIN paths |-> DecoratedPath(sorted, paths, paths[k].channel)]

FitTransitions(d) ==
    CountPaths(<<>>, DecoratePaths(SortValues(d), GroupPaths(SortValues(d))), 1)

AttributeResults(d, base, res) ==
    [base |-> base, results |-> res,
     attribution |-> Attribution(res, TotalRevenue(d))]

AttributeBase(d, probs, order, base) ==
    AttributeResults(d, base,
                     RemovalLoop(probs, order, 1, base, NoEntries).results)

AttributeProbs(d, probs, order) ==
    AttributeBase(d, probs, order, ConversionProbability(probs))

FitAndAttribute(d, trans) ==
    {AttributeProbs(d, Probabilities(trans), order) :
        order \in IterationOrders(AllChannels(trans))}

Init ==
    /\ df = <<>>
    /\ pc = "load"
    /\ decorated = <<>>
    /\ transitions = <<>>
    /\ transition_probs = <<>>
    /\ base_conversion = Zero
    /\ results = NoEntries
    /\ total_revenue = 0
    /\ attribution = NoEntries
    /\ outcome = "none"
    /\ calls = 0

\* The loader delivers the next row of
\* SELECT ... ORDER BY user_id, timestamp, pre-processed.
AddRowUpTo(max) ==
    /\ pc = "load"
    /\ Len(df) < max
    /\ \E cookie \in {LastCookie, LastCookie + 1} \cap (1 .. MaxUsers),
          channel \in NextChannels,
          interaction \in {"click", "conversion"},
          value \in Values :
            df' = Append(df, Row(cookie, channel, interaction, value))
    /\ UNCHANGED <<pc, decorated, transitions, transition_probs,
                   base_conversion, results, total_revenue, attribution,
                   outcome, calls>>

AddRow == AddRowUpTo(MaxRows)

AddRowLong == AddRowUpTo(MaxRowsLong)

\* app.py main(): if df.empty: return
ReturnOnEmpty ==
    /\ pc = "load"
    /\ df = <<>>
    /\ pc' = "returned"
    /\ UNCHANGED <<df, decorated, transitions, transition_probs,
                   base_conversion, results, total_revenue, attribution,
                   outcome, calls>>

\* RobustMarkovModel(df).fit()
Fit ==
    /\ pc = "load"
    /\ \E sorted \in {SortValues(df)} :
       \E paths \in {GroupPaths(sorted)} :
       \E decs \in {[k \in DOMAIN paths |->
                       DecoratedPath(sorted, paths, paths[k].channel)]} :
       \E trans \in {CountPaths(<<>>, decs, 1)} :
           /\ df' = sorted
           /\ decorated' = decs
           /\ transitions' = trans
           /\ transition_probs' = Probabilities(trans)
    /\ pc' = "fitted"
    /\ outcome' = "ok"
    /\ UNCHANGED <<base_conversion, results, total_revenue, attribution, calls>>

\* Whether a value of the call is that of a division by zero.
Raised(res, attr) ==
    \/ \E c \in DOMAIN res : IsErr(res[c])
    \/ \E c \in DOMAIN attr : IsErr(attr[c])

\* model.calculate_attribution()
CalculateAttribution ==
    /\ pc \in {"fitted", "done"}
    /\ calls < MaxCalls
    /\ \E base \in {ConversionProbability(transition_probs)} :
       \E order \in IterationOrders(AllChannels(transitions)) :
       \E loop \in {RemovalLoop(transition_probs, order, 1, base, NoEntries)} :
       \E revenue \in {TotalRevenue(df)} :
       \E attr \in {Attribution(loop.results, revenue)} :
       \E raised \in {Raised(loop.results, attr)} :
           /\ transition_probs' = loop.probs
           /\ base_conversion' = base
           /\ results' = loop.results
           /\ total_revenue' = revenue
           /\ attribution' = IF raised THEN NoEntries ELSE attr
           /\ outcome' = IF raised THEN "ZeroDivisionError" ELSE "ok"
    /\ pc' = "done"
    /\ calls' = calls + 1
    /\ UNCHANGED <<df, decorated, transitions>>

Next == AddRow \/ ReturnOnEmpty \/ Fit \/ CalculateAttribution

Spec == Init /\ [][Next]_vars

\* The same program on data frames of up to MaxRowsLong rows.
NextLong == AddRowLong \/ ReturnOnEmpty \/ Fit \/ CalculateAttribution

SpecLong == Init /\ [][NextLong]_vars

(* ----------------------------- properties ----------------------------- *)
Fitted == pc \in {"fitted", "done"}
Done == pc = "done"
Last(seq) == seq[Len(seq)]
TotalEffect == TotalRemovalEffect(results)
Cookies == {df[i].cookie : i \in DOMAIN df}

\* C1: after fit and calculate_attribution, whenever the sum of the removal
\* effects is > 0, the attributed revenues of all channels sum to
\* total_revenue.
C1_SumEqualsTotalRevenue ==
    (Done /\ outcome = "ok" /\ RGt(TotalEffect, Zero)) =>
        SumValues(attribution, DOMAIN attribution) = FromInt(total_revenue)

\* C1 witness: revenue was distributed over two channels with different,
\* non-zero shares.
C1_Witness ==
    /\ Done /\ outcome = "ok" /\ RGt(TotalEffect, Zero)
    /\ total_revenue > 0
    /\ \E c1, c2 \in DOMAIN attribution :
         /\ attribution[c1] # attribution[c2]
         /\ attribution[c1] # Zero /\ attribution[c2] # Zero

\* C2: every channel's attributed revenue is >= 0.
C2_NonNegativeRevenue ==
    Done => \A c \in DOMAIN attribution : RGe(attribution[c], Zero)

\* C3: the decorated path of every user ends in '(conversion)' iff a
\* touchpoint of that same user is a conversion, and in '(null)' otherwise.
C3_TerminalOfOwnUser ==
    Fitted =>
        \A k \in DOMAIN decorated :
            LET user == GroupPaths(df)[k].cookie
            IN  Last(decorated[k]) =
                    IF HasConverted(df, user) THEN CONVERSION ELSE NULL

RECURSIVE SumProbs(_, _)
SumProbs(probs, from) ==
    IF probs = <<>> THEN Zero
    ELSE RAdd(IF Head(probs).from = from THEN Head(probs).p ELSE Zero,
              SumProbs(Tail(probs), from))

\* C4: after fit on a non-empty input, the outbound probabilities of every
\* node with an outbound edge sum to 1, each probability is in (0,1], and
\* '(conversion)' and '(null)' have no outbound edge.
C4_OutboundSumToOne ==
    (pc = "fitted" /\ df # <<>>) =>
        \A i \in DOMAIN transition_probs :
            /\ SumProbs(transition_probs, transition_probs[i].from) = One
            /\ RGt(transition_probs[i].p, Zero)
            /\ RGe(One, transition_probs[i].p)
            /\ transition_probs[i].from \notin {CONVERSION, NULL}

\* C4 witness: a node with two outbound edges of different probability.
C4_Witness ==
    /\ pc = "fitted"
    /\ \E i, j \in DOMAIN transition_probs :
         /\ transition_probs[i].from = transition_probs[j].from
         /\ transition_probs[i].from # START
         /\ RGt(transition_probs[i].p, transition_probs[j].p)

\* C5: every channel's removal effect lies in [0,1].
C5_RemovalEffectInUnitInterval ==
    Done => \A c \in DOMAIN results :
                RGe(results[c], Zero) /\ RGe(One, results[c])

Max(a, b) == IF a > b THEN a ELSE b

RECURSIVE MaxValue(_, _)
MaxValue(d, user) ==
    IF d = <<>> THEN 0
    ELSE Max(IF Head(d).cookie = user THEN Head(d).conversion_value ELSE 0,
             MaxValue(Tail(d), user))

RECURSIVE SumOfUserValues(_)
SumOfUserValues(users) ==
    IF users = {} THEN 0
    ELSE LET u == CHOOSE x \in users : TRUE
         IN  MaxValue(df, u) + SumOfUserValues(users \ {u})

\* C6: the distributed total revenue is the sum over the converted users of
\* the user's conversion value, the maximum conversion_value of the user's
\* touchpoints.
C6_RevenueCountsEachUserOnce ==
    Done => total_revenue =
                SumOfUserValues({u \in Cookies : HasConverted(df, u)})

\* C7: a call of calculate_attribution leaves transitions and
\* transition_probs as they were, and a second call returns the results of
\* the first.
C7_Idempotent ==
    [][(pc' = "done" /\ calls' = calls + 1) =>
          /\ transitions' = transitions
          /\ transition_probs' = transition_probs
          /\ (pc = "done" =>
                /\ results' = results
                /\ attribution' = attribution
                /\ outcome' = outcome)]_vars

\* C7 witness: a second call has returned, on a model with a channel that is
\* both entered and left (so its ablation edits the map) and earned revenue.
C7_Witness ==
    /\ Done /\ calls = 2 /\ outcome = "ok"
    /\ \E c \in DOMAIN attribution : RGt(attribution[c], Zero)
    /\ \E i \in DOMAIN transition_probs :
         transition_probs[i].to \in AllChannels(transitions)

\* C8: if the sum of the removal effects is <= 0, calculate_attribution
\* completes without error and every channel's attributed revenue is 0.
C8_ZeroWhenNoEffect ==
    (Done /\ ~RGt(TotalEffect, Zero)) =>
        /\ outcome = "ok"
        /\ DOMAIN attribution = AllChannels(transitions)
        /\ \A c \in DOMAIN attribution : attribution[c] = Zero

\* C8 witness: no user converts, the base conversion probability is 0.
C8_Witness ==
    /\ Done /\ df # <<>>
    /\ \A i \in DOMAIN df : ~df[i].conversion
    /\ base_conversion = Zero
    /\ TotalEffect = Zero
    /\ Cardinality(DOMAIN attribution) >= 2

\* U1 = [FB] converted with value 100, U2 = [Google, FB] converted with
\* value 100, U3 = [Google] not converted.
Touch(cookie, time, channel, conversion, value) ==
    [cookie |-> cookie, time |-> time, channel |-> channel,
     conversion |-> conversion, conversion_value |-> value]

ThreeUsers ==
    <<Touch(1, 1, "FB", TRUE, 100), Touch(2, 2, "Google", FALSE, 0),
      Touch(2, 3, "FB", TRUE, 100), Touch(3, 4, "Google", FALSE, 0)>>

\* C9: on the three-user input FB and Google each get a removal effect > 0,
\* ablating FB lowers the conversion probability more than ablating Google,
\* and FB is attributed more revenue than Google.
C9_ThreeUserScenario ==
    (Done /\ df = ThreeUsers) =>
        LET pFB == ConversionProbability(Ablate(transition_probs, "FB"))
            pGoogle == ConversionProbability(Ablate(transition_probs, "Google"))
        IN  /\ DOMAIN results = {"FB", "Google"}
            /\ RGt(results["FB"], Zero)
            /\ RGt(results["Google"], Zero)
            /\ RGt(results["FB"], results["Google"])
            /\ RGt(base_conversion, pGoogle)
            /\ RGt(pGoogle, pFB)
            /\ RGt(attribution["FB"], attribution["Google"])

\* C9 witness: calculate_attribution has returned on the three-user input.
C9_Witness ==
    /\ Done /\ df = ThreeUsers /\ outcome = "ok"
    /\ total_revenue = 200

\* C10: fit on an empty event set ends in EmptyInputError, it returns no
\* model and no attribution is produced from it.
C10_EmptyInputError ==
    (df = <<>> /\ pc \in {"fitted", "done"}) => outcome = "EmptyInputError"

Keys(m) == {<<m[i].from, m[i].to>> : i \in DOMAIN m}
ValueAt(m, key) ==
    m[CHOOSE i \in DOMAIN m : m[i].from = key[1] /\ m[i].to = key[2]].p

\* temp is base without the entries leaving channel, with 0 on the entries
\* entering it and base's value on every other entry.
IsAblationOf(temp, base, channel) ==
    /\ Keys(temp) = {key \in Keys(base) : key[1] # channel}
    /\ Len(temp) = Cardinality(Keys(temp))
    /\ \A i \in DOMAIN temp :
          temp[i].p = IF temp[i].to = channel THEN Zero
                      ELSE ValueAt(base, <<temp[i].from, temp[i].to>>)

\* The removal effect recorded for channel is the one of the map temp.
EffectRecordedFrom(temp, channel) ==
    results[channel] =
        RemovalEffect(ConversionProbability(temp), base_conversion)

AblatedFromBase(temp, channel) ==
    /\ IsAblationOf(temp, transition_probs, channel)
    /\ EffectRecordedFrom(temp, channel)

\* C11: the map ablated for a channel c is the base transition_probs without
\* the edges leaving c, with weight 0 on the edges entering c and the base
\* weight on every other edge; the base map is unchanged by the loop, and the
\* removal effect recorded for every channel is the one of the ablation of
\* the base map, whatever the order in which the channels were ablated.
C11_AblationFrame ==
    Done =>
        /\ transition_probs = Probabilities(transitions)
        /\ DOMAIN results = AllChannels(transitions)
        /\ \A c \in AllChannels(transitions) :
              AblatedFromBase(Ablate(transition_probs, c), c)

\* C11 witness: two channels were ablated; one of them has a self-loop, is
\* entered from the other channel with a positive base weight, and an edge of
\* the base map touches it on neither side.
C11_Witness ==
    /\ Done /\ outcome = "ok"
    /\ Cardinality(AllChannels(transitions)) >= 2
    /\ \E c \in AllChannels(transitions) :
         /\ <<c, c>> \in Keys(transition_probs)
         /\ \E i \in DOMAIN transition_probs :
              /\ transition_probs[i].to = c
              /\ transition_probs[i].from \in AllChannels(transitions) \ {c}
         /\ \E i \in DOMAIN transition_probs :
              /\ transition_probs[i].to # c /\ transition_probs[i].from # c
         /\ RGt(results[c], Zero)

InUnitInterval(x) == ~IsErr(x) /\ RGe(x, Zero) /\ RGe(One, x)

\* C12: on the base map produced by fit and on each of its single-channel
\* ablations _calculate_conversion_probability returns a value in [0,1],
\* cycles and self-loops among the channels included.
C12_SolverInUnitInterval ==
    pc = "fitted" =>
        /\ InUnitInterval(ConversionProbability(transition_probs))
        /\ \A c \in AllChannels(transitions) :
              InUnitInterval(ConversionProbability(Ablate(transition_probs, c)))

\* C12 witness: the solver has returned on a map with a self-loop and a
\* two-channel cycle, with a base value strictly between 0 and 1.
C12_Witness ==
    /\ pc = "fitted"
    /\ RGt(ConversionProbability(transition_probs), Zero)
    /\ RGt(One, ConversionProbability(transition_probs))
    /\ \E c, d \in AllChannels(transitions) :
         /\ c # d
         /\ {<<c, c>>, <<c, d>>, <<d, c>>} \subseteq Keys(transition_probs)

Successors(m, node) == {m[i].to : i \in {j \in DOMAIN m : m[j].from = node}}

RECURSIVE Closure(_, _)
Closure(m, S) ==
    LET T == S \cup UNION {Successors(m, n) : n \in S}
    IN  IF T = S THEN S ELSE Closure(m, T)

\* The nodes reached from node by one or more edges.
ReachableFrom(m, node) == Closure(m, Successors(m, node))

Acyclic(m) == \A i \in DOMAIN m : m[i].from \notin ReachableFrom(m, m[i].from)

RowsSumToOne(m) == \A i \in DOMAIN m : SumProbs(m, m[i].from) = One

\* Every path from '(start)' ends at '(conversion)': no reachable node is
\* '(null)' or is another node without an outbound edge.
EveryPathConvertsIn(m, reached) ==
    /\ NULL \notin reached
    /\ CONVERSION \in reached
    /\ \A n \in reached \ {CONVERSION} : Successors(m, n) # {}

EveryPathConverts(m) == EveryPathConvertsIn(m, ReachableFrom(m, START))

AllConverted == df # <<>> /\ \A u \in Cookies : HasConverted(df, u)

\* C13: on a map without cycles whose outbound weights sum to 1 at every
\* node and whose paths from '(start)' all end at '(conversion)', the solver
\* returns 1; in particular the base conversion probability after fit is 1
\* when every user converts and no journey induces a cycle.
C13_AcyclicAllConvertedIsOne ==
    Done =>
        /\ (EveryPathConverts(transition_probs) /\ Acyclic(transition_probs)
               /\ RowsSumToOne(transition_probs))
              => base_conversion = One
        /\ (AllConverted /\ Acyclic(transition_probs))
              => base_conversion = One

\* C13 witness: two converting users with different journeys, no cycle, and a
\* channel entered from two nodes (its value is summed once and then read
\* from the memo).
C13_Witness ==
    /\ Done /\ outcome = "ok"
    /\ AllConverted /\ Cardinality(Cookies) >= 2
    /\ Acyclic(transition_probs)
    /\ RowsSumToOne(transition_probs) /\ EveryPathConverts(transition_probs)
    /\ \E i, j \in DOMAIN transition_probs :
         /\ transition_probs[i].to = transition_probs[j].to
         /\ transition_probs[i].to \in AllChannels(transitions)
         /\ transition_probs[i].from # transition_probs[j].from
    /\ base_conversion = One

\* The bijections of the cookies, and the data frame with its user ids
\* renumbered by one of them (the rows keep their times and contents).
Renumberings == {f \in [Cookies -> Cookies] :
                    \A a, b \in Cookies : f[a] = f[b] => a = b}

Renumber(d, f) == [i \in DOMAIN d |-> [d[i] EXCEPT !.cookie = f[@]]]

\* No two users have the same channel sequence, so that the lookup of fit
\* pairs every path with its own user under every numbering.
DistinctJourneys ==
    \A j, k \in DOMAIN decorated : decorated[j] = decorated[k] => j = k

SameAsLastCall(run) ==
    /\ run.base = base_conversion
    /\ run.results = results
    /\ run.attribution = attribution

\* C14: the result of fit and calculate_attribution does not depend on the
\* numbering of the users: on the renumbered data frame the base conversion
\* probability, every removal effect and every attributed revenue are those
\* of the original one.  Stated on inputs whose users have pairwise different
\* journeys.
C14_UserOrderIndependent ==
    (Done /\ outcome = "ok" /\ DistinctJourneys) =>
        \A f \in Renumberings :
            \A run \in FitAndAttribute(Renumber(df, f),
                                       FitTransitions(Renumber(df, f))) :
                SameAsLastCall(run)
=============================================================================
